---- MODULE Spec2Model ----
(***************************************************************************)
(* TelemetriX (src/app.py): a Streamlit script that                        *)
(*   (a) generates a four-channel telemetry table, injects anomalies and   *)
(*       labels every row with an IsolationForest (lines 12-35), and       *)
(*   (b) propagates two circular Earth orbits over one period of the first *)
(*       one, takes the minimum distance and derives a risk status         *)
(*       (lines 37-57).                                                    *)
(*                                                                         *)
(* Floating-point quantities are fixed-point integers:                     *)
(*   lengths in metres, times in 10^-4 s, angles in 10^-7 rad, orbital     *)
(*   phase in 2^-23 revolutions, telemetry channels in 10^-2 units.        *)
(* TLC integers are 32 bit, so products go through MulDiv.                 *)
(***************************************************************************)
EXTENDS Integers, Sequences, FiniteSets, TLC

(***************************************************************************)
(* Fixed-point arithmetic                                                  *)
(***************************************************************************)
\* F applied to the value of v, v evaluated once.
With(v, F(_)) == CHOOSE y \in {F(w) : w \in {v}} : TRUE

Abs(x) == IF x < 0 THEN -x ELSE x

Min2(a, b) == IF a <= b THEN a ELSE b

Max2(a, b) == IF a >= b THEN a ELSE b

\* <<floor(a*b/c), (a*b) mod c>> for naturals a, b and 0 < c < 10^8, without
\* forming a*b (multiply-and-add over the octal digits of b).
RECURSIVE MulDivQR(_, _, _)
MulDivQR(a, b, c) ==
    IF b = 0 THEN <<0, 0>>
    ELSE With(MulDivQR(a, b \div 8, c), LAMBDA h :
         With(8 * h[2] + (b % 8) * (a % c), LAMBDA r :
            <<8 * h[1] + (b % 8) * (a \div c) + (r \div c), r % c>>))

SmallFactor == 46340            \* floor(sqrt(2^31 - 1))

MulDiv(a, b, c) ==
    With(<<a, b, c>>, LAMBDA v :
        IF v[1] <= SmallFactor /\ v[2] <= SmallFactor THEN (v[1] * v[2]) \div v[3]
        ELSE MulDivQR(v[1], v[2], v[3])[1])

\* a*b/c rounded to the nearest integer, sign carried by a.
MulDivRound(a, b, c) ==
    With(<<a, b, c>>, LAMBDA v :
        With(MulDivQR(Abs(v[1]), v[2], v[3]), LAMBDA qr :
            IF v[1] < 0 THEN 0 - qr[1] - (IF 2 * qr[2] >= v[3] THEN 1 ELSE 0)
            ELSE qr[1] + (IF 2 * qr[2] >= v[3] THEN 1 ELSE 0)))

\* floor(sqrt(n)) by bisection on [lo, hi].
RECURSIVE ISqrtIn(_, _, _)
ISqrtIn(n, lo, hi) ==
    IF lo >= hi THEN lo
    ELSE With((lo + hi + 1) \div 2, LAMBDA mid :
            IF mid * mid <= n THEN ISqrtIn(n, mid, hi) ELSE ISqrtIn(n, lo, mid - 1))

ISqrt(n) == With(n, LAMBDA v : ISqrtIn(v, 0, Min2(v, SmallFactor)))

\* floor(sqrt(x*y)) for x*y < 10^16, by Newton's iteration from above.
RECURSIVE NewtonSqrt(_, _, _)
NewtonSqrt(x, y, s) ==
    With((s + MulDiv(x, y, s)) \div 2, LAMBDA t :
        IF t >= s THEN s ELSE NewtonSqrt(x, y, t))

SqrtMul(x, y) ==
    With(<<x, y>>, LAMBDA v :
        IF v[1] = 0 \/ v[2] = 0 THEN 0 ELSE NewtonSqrt(v[1], v[2], 10^8 - 1))

(***************************************************************************)
(* Trigonometry on the binary phase circle                                 *)
(***************************************************************************)
RadScale == 10^7                \* angles and unit-vector components: 10^-7

PhaseScale == 2^23              \* one revolution

TwoPi == 62831853               \* 2*pi in RadScale units

\* The Taylor series of cos and sin up to x^8 and x^9, x2 = x*x.
CosSinSeries(x, x2) ==
    LET c2 == x2 \div 2
        c4 == MulDiv(c2, x2, RadScale) \div 12
        c6 == MulDiv(c4, x2, RadScale) \div 30
        c8 == MulDiv(c6, x2, RadScale) \div 56
        s3 == MulDiv(x, x2, RadScale) \div 6
        s5 == MulDiv(s3, x2, RadScale) \div 20
        s7 == MulDiv(s5, x2, RadScale) \div 42
        s9 == MulDiv(s7, x2, RadScale) \div 72
    IN <<RadScale - c2 + c4 - c6 + c8, x - s3 + s5 - s7 + s9>>

\* <<cos, sin>> of x (RadScale radians, 0 <= x <= pi/4).
CosSinSmall(x) ==
    With(x, LAMBDA v : With(MulDiv(v, v, RadScale), LAMBDA v2 : CosSinSeries(v, v2)))

\* <<cos, sin>> (RadScale units) of a phase in 0 .. PhaseScale-1: the phase is
\* folded into the first half quadrant and the result rotated back.
CosSinOf(q, r) ==
    LET quarter == PhaseScale \div 4
        fold == r > quarter \div 2
    IN With(CosSinSmall(MulDiv(IF fold THEN quarter - r ELSE r, TwoPi, PhaseScale)),
            LAMBDA cs :
            LET c == IF fold THEN cs[2] ELSE cs[1]
                s == IF fold THEN cs[1] ELSE cs[2]
            IN CASE q = 0 -> <<c, s>>
                 [] q = 1 -> <<-s, c>>
                 [] q = 2 -> <<-c, -s>>
                 [] OTHER -> <<s, -c>>)

CosSin(phase) ==
    With(phase, LAMBDA p : CosSinOf(p \div (PhaseScale \div 4), p % (PhaseScale \div 4)))

(***************************************************************************)
(* Vectors (numpy arrays of shape (3,))                                    *)
(***************************************************************************)
Subtract_Add(v, w) == <<v[1] + w[1], v[2] + w[2], v[3] + w[3]>>

\* sat1_coords - sat2_coords, one row
Subtract(v, w) == <<v[1] - w[1], v[2] - w[2], v[3] - w[3]>>

Norm_X(v) == Abs(v[1])

\* np.linalg.norm of one row.  Components above SmallFactor are scaled down by
\* ten first and the result scaled up again, as a float scales its mantissa.
RECURSIVE Norm(_)
Norm(v) ==
    With(v, LAMBDA w :
        IF Max2(Abs(w[1]), Max2(Abs(w[2]), Abs(w[3]))) * 2 > SmallFactor
        THEN 10 * Norm(<<w[1] \div 10, w[2] \div 10, w[3] \div 10>>)
        ELSE ISqrt(w[1] * w[1] + w[2] * w[2] + w[3] * w[3]))

MinOf_Max(s) == CHOOSE v \in {s[i] : i \in 1..Len(s)} : \A i \in 1..Len(s) : v >= s[i]

\* np.min of a non-empty array.
MinOf(s) == CHOOSE v \in {s[i] : i \in 1..Len(s)} : \A i \in 1..Len(s) : v <= s[i]

(***************************************************************************)
(* poliastro: Earth, Orbit.circular, Orbit.period, Orbit.propagate         *)
(***************************************************************************)
EarthR == 6378137               \* Earth.R = 6378.1366 km, in metres

KeplerFactor == 99042583        \* 4*pi^2 * 10^8 / Earth.k, scaled by 10^8

Epoch == "2025-01-01 00:00:00"

\* Orbit.circular(Earth, alt = alt km, epoch): a = R + alt, ecc = 0, inc = raan =
\* arglat = 0 (the defaults), no check of the altitude.
Circular(alt, ep) == [a |-> EarthR + 1000 * alt, nu |-> 0, epoch |-> ep]

NoOrbit == [a |-> 0, nu |-> 0, epoch |-> ""]

\* orbit.period.to(u.s).value in 10^-4 s: 2*pi*sqrt(a^3 / k).
Period(orbit) ==
    SqrtMul(MulDiv(orbit.a, orbit.a, 10^6), MulDiv(orbit.a, KeplerFactor, 10^7))

\* orbit.propagate(t).r.to(u.km).value: a circular orbit in the equatorial
\* plane keeps its radius and advances its true anomaly by 2*pi*t/period.
Propagate(orbit, t) ==
    With(Period(orbit), LAMBDA T :
        With(CosSin((orbit.nu + MulDiv(t % T, PhaseScale, T)) % PhaseScale), LAMBDA cs :
            <<MulDivRound(cs[1], orbit.a, RadScale),
              MulDivRound(cs[2], orbit.a, RadScale), 0>>))

\* np.linspace(start, stop, num): num points, the last one stop itself; one
\* point gives start alone and zero points the empty array.
Linspace(start, stop, num) ==
    With(<<start, stop>>, LAMBDA v :
        [i \in 1..num |->
            IF i = num /\ num > 1 THEN v[2]
            ELSE IF num = 1 THEN v[1]
            ELSE v[1] + MulDiv(i - 1, v[2] - v[1], num - 1)])

\* [orbit.propagate(t).r for t in ts]
Trajectory(orbit, ts) == [i \in 1..Len(ts) |-> Propagate(orbit, ts[i])]

(***************************************************************************)
(* numpy: arange, sin, slices; the telemetry channels (lines 13-22)        *)
(***************************************************************************)
ValueScale == 10^2              \* telemetry channels: 10^-2

\* np.arange(0, n, 1)
Arange(n) == [i \in 1..n |-> i - 1]

\* amp * sin(omega * t) in ValueScale units; omega in 10^-2 rad per step.
Wave(amp, omega, t) ==
    MulDivRound(CosSin(MulDiv((omega * (RadScale \div 100) * t) % TwoPi,
                              PhaseScale, TwoPi) % PhaseScale)[2],
                amp, RadScale)

\* base + amp*np.sin(omega*time), element by element.
Channel(base, amp, omega, ts) ==
    [i \in 1..Len(ts) |-> base * ValueScale + Wave(amp, omega, ts[i])]

\* arr[lo:hi] += delta: a slice is clipped to the array.
AddToSlice(arr, lo, hi, delta) ==
    [i \in 1..Len(arr) |-> IF lo <= i - 1 /\ i - 1 < hi THEN arr[i] + delta ELSE arr[i]]

(***************************************************************************)
(* pandas: DataFrame, column selection, column assignment                  *)
(***************************************************************************)
FeatureColumns == <<"temperature", "voltage", "current", "signal_strength">>

NoFrame == [time |-> <<>>]

\* df[[c1, ..., ck]]: a new frame holding copies of the columns.
SelectColumns(df, cols) ==
    [c \in {cols[k] : k \in 1..Len(cols)} |-> df[c]]

\* df[name] = values
SetColumn(df, name, values) ==
    [c \in DOMAIN df \cup {name} |-> IF c = name THEN values ELSE df[c]]

NumRows(df) == Len(df[FeatureColumns[1]])

\* Row i of the feature table, in FeatureColumns order.
Row(df, i) == [k \in 1..Len(FeatureColumns) |-> df[FeatureColumns[k]][i]]

(***************************************************************************)
(* numpy.random: a generator state and one draw                            *)
(* (the minimal-standard Lehmer generator stands for the Mersenne twister) *)
(***************************************************************************)
RandomState(seed) == (seed % (2^30)) + 1

NextRand(s) ==
    LET t == 16807 * (s % 127773) - 2836 * (s \div 127773)
    IN IF t > 0 THEN t ELSE t + 2147483647

(***************************************************************************)
(* sklearn.ensemble.IsolationForest                                        *)
(***************************************************************************)
ScoreScale == 10^6              \* path lengths and scores: 10^-6

MaxSamplesAuto == 256           \* max_samples = "auto": min(256, n_samples)

\* 2*atanh(w) by its series, w2 = w*w.
LnSeries(w, w2) ==
    LET w3 == MulDiv(w, w2, ScoreScale)
        w5 == MulDiv(w3, w2, ScoreScale)
        w7 == MulDiv(w5, w2, ScoreScale)
        w9 == MulDiv(w7, w2, ScoreScale)
        w11 == MulDiv(w9, w2, ScoreScale)
    IN 2 * (w + w3 \div 3 + w5 \div 5 + w7 \div 7 + w9 \div 9 + w11 \div 11)

\* ln(u / ScoreScale) * ScoreScale for ScoreScale <= u < 2*ScoreScale:
\* 2*atanh(w), w = (u-1)/(u+1).
LnUnit(u) ==
    With(MulDiv(u - ScoreScale, ScoreScale, u + ScoreScale), LAMBDA w :
        With(MulDiv(w, w, ScoreScale), LAMBDA w2 : LnSeries(w, w2)))

\* ln(m) * ScoreScale for an integer m >= 1.
RECURSIVE LnInt(_, _)
LnInt(m, pow) ==
    IF m < 2 * pow THEN LnUnit((m * ScoreScale) \div pow)
    ELSE 693147 + LnInt(m, 2 * pow)

\* _average_path_length(n): the mean depth of an unsuccessful search in a
\* binary search tree of n nodes, 2*(ln(n-1) + gamma) - 2*(n-1)/n.
AveragePathLength(n) ==
    IF n <= 1 THEN 0
    ELSE IF n = 2 THEN ScoreScale
    ELSE 2 * (LnInt(n - 1, 1) + 577216) - (2 * (n - 1) * ScoreScale) \div n

RECURSIVE CeilLog2(_)
CeilLog2(n) == IF n <= 1 THEN 0 ELSE 1 + CeilLog2((n + 1) \div 2)

\* exp(-z / ScoreScale) * ScoreScale for 0 <= z < ScoreScale, by its series.
ExpNegSeries(z) ==
    LET z2 == MulDiv(z, z, ScoreScale) \div 2
        z3 == MulDiv(z2, z, ScoreScale) \div 3
        z4 == MulDiv(z3, z, ScoreScale) \div 4
        z5 == MulDiv(z4, z, ScoreScale) \div 5
        z6 == MulDiv(z5, z, ScoreScale) \div 6
        z7 == MulDiv(z6, z, ScoreScale) \div 7
        z8 == MulDiv(z7, z, ScoreScale) \div 8
    IN ScoreScale - z + z2 - z3 + z4 - z5 + z6 - z7 + z8

\* 2^(-y / ScoreScale) * ScoreScale for y >= 0.
Exp2Neg(y) ==
    With(y, LAMBDA v :
        IF v \div ScoreScale > 30 THEN 0
        ELSE With(MulDiv(v % ScoreScale, 693147, ScoreScale), LAMBDA z :
                ExpNegSeries(z) \div (2^(v \div ScoreScale))))

\* The features that vary over the rows of a node, in column order.
Varying(X, rows) ==
    SelectSeq([k \in 1..Len(FeatureColumns) |-> k],
              LAMBDA k : \E i, j \in rows : Row(X, i)[k] # Row(X, j)[k])

ColumnMin(X, rows, k) == CHOOSE v \in {Row(X, i)[k] : i \in rows} :
                            \A i \in rows : v <= Row(X, i)[k]

ColumnMax(X, rows, k) == CHOOSE v \in {Row(X, i)[k] : i \in rows} :
                            \A i \in rows : v >= Row(X, i)[k]

\* One isolation tree (ExtraTreeRegressor, max_features = 1, splitter =
\* "random") grown on `rows`: a random varying feature, a random threshold
\* between its minimum and maximum, until a node holds one row, nothing varies
\* or the depth limit is reached.  Returns the tree and the generator state.
RECURSIVE BuildTree(_, _, _, _, _)
Split(X, rows, depth, maxDepth, f, r2) ==
    With(<<ColumnMin(X, rows, f), ColumnMax(X, rows, f)>>, LAMBDA range :
    With(range[1] + (r2 % (range[2] - range[1])), LAMBDA thr :
    With({i \in rows : Row(X, i)[f] <= thr}, LAMBDA goLeft :
    With(BuildTree(X, goLeft, depth + 1, maxDepth, r2), LAMBDA l :
    With(BuildTree(X, rows \ goLeft, depth + 1, maxDepth, l.rng), LAMBDA r :
        [tree |-> [leaf |-> FALSE, feature |-> f, threshold |-> thr,
                   left |-> l.tree, right |-> r.tree],
         rng |-> r.rng])))))

BuildTree(X, rows, depth, maxDepth, rng) ==
    With(Varying(X, rows), LAMBDA vary :
        IF Cardinality(rows) <= 1 \/ depth >= maxDepth \/ Len(vary) = 0
        THEN [tree |-> [leaf |-> TRUE, size |-> Cardinality(rows)], rng |-> rng]
        ELSE With(NextRand(rng), LAMBDA r1 :
                Split(X, rows, depth, maxDepth,
                      vary[(r1 % Len(vary)) + 1], NextRand(r1))))

\* Depth of the leaf a row falls in, plus the average path length of the rows
\* left unsplit in that leaf.
RECURSIVE PathLength(_, _, _)
PathLength(tree, row, depth) ==
    IF tree.leaf THEN depth * ScoreScale + AveragePathLength(tree.size)
    ELSE IF row[tree.feature] <= tree.threshold
         THEN PathLength(tree.left, row, depth + 1)
         ELSE PathLength(tree.right, row, depth + 1)

RECURSIVE SumPathLength(_, _, _)
SumPathLength(trees, row, k) ==
    IF k > Len(trees) THEN 0
    ELSE PathLength(trees[k], row, 0) + SumPathLength(trees, row, k + 1)

\* score_samples: -2^(-mean path length / average path length of max_samples);
\* with one training row both are 0 and the exponent is set to 1.
ScoreSample(forest, row) ==
    With(Len(forest.estimators) * AveragePathLength(forest.max_samples), LAMBDA denom :
        0 - Exp2Neg(IF denom = 0 THEN ScoreScale
                    ELSE MulDiv(SumPathLength(forest.estimators, row, 1),
                                ScoreScale, denom)))

\* The k-th smallest element (k from 1) of a sequence.
KthSmallest(s, k) ==
    CHOOSE v \in {s[i] : i \in 1..Len(s)} :
        /\ Cardinality({i \in 1..Len(s) : s[i] < v}) < k
        /\ Cardinality({i \in 1..Len(s) : s[i] <= v}) >= k

\* np.percentile(s, q), linear interpolation between the two nearest ranks.
Percentile(s, q) ==
    With(<<KthSmallest(s, (q * (Len(s) - 1)) \div 100 + 1),
           KthSmallest(s, Min2((q * (Len(s) - 1)) \div 100 + 2, Len(s)))>>,
         LAMBDA near :
            near[1] + ((near[2] - near[1]) * ((q * (Len(s) - 1)) % 100)) \div 100)

\* The n_estimators trees, each seeded by one draw of the ensemble's generator.
RECURSIVE GrowTrees(_, _, _, _)
GrowTrees(X, rows, count, rng) ==
    IF count = 0 THEN [trees |-> <<>>, rng |-> rng]
    ELSE With(NextRand(rng), LAMBDA seed :
         With(BuildTree(X, rows, 0, CeilLog2(Max2(Cardinality(rows), 2)), seed), LAMBDA t :
         With(GrowTrees(X, rows, count - 1, seed), LAMBDA rest :
            [trees |-> <<t.tree>> \o rest.trees, rng |-> rest.rng])))

\* predict on one row: -1 where decision_function < 0, else 1.
PredictRow(forest, row) ==
    IF ScoreSample(forest, row) - forest.offset < 0 THEN -1 ELSE 1

\* IsolationForest(contamination = 0.05, random_state = 42), not yet fitted.
Contamination == 5              \* 0.05, in percent

NoneSeed == 0 - 1               \* random_state = None

RandomStateArg_None == NoneSeed

RandomStateArg == 42

NEstimators == 3                \* n_estimators (sklearn's default is 100)

IsolationForest(contamination, random_state) ==
    [contamination |-> contamination, random_state |-> random_state,
     n_estimators |-> NEstimators, estimators |-> <<>>, max_samples |-> 0,
     offset |-> 0]

NoModel == IsolationForest(0, NoneSeed)

\* check_random_state: an integer seeds a fresh generator on every fit; None
\* is the process-wide numpy generator.
CheckRandomState(random_state, global) ==
    IF random_state = NoneSeed THEN global ELSE RandomState(random_state)

\* fit(X): grow the trees on min(256, n) rows and set offset_ to the
\* contamination percentile of the training scores.  Returns the fitted model
\* and the state the process-wide generator is left in.
Fit(mdl, X, global) ==
    With(Min2(MaxSamplesAuto, NumRows(X)), LAMBDA n :
    With(GrowTrees(X, 1..n, mdl.n_estimators,
                   CheckRandomState(mdl.random_state, global)), LAMBDA grown :
    With([mdl EXCEPT !.estimators = grown.trees, !.max_samples = n], LAMBDA forest :
    With([i \in 1..NumRows(X) |-> ScoreSample(forest, Row(X, i))], LAMBDA scores :
        [model |-> [forest EXCEPT !.offset = Percentile(scores, mdl.contamination)],
         np_random |-> IF mdl.random_state = NoneSeed THEN grown.rng ELSE global]))))

Predict_Reversed(mdl, X) ==
    [i \in 1..NumRows(X) |-> PredictRow(mdl, Row(X, NumRows(X) + 1 - i))]

\* predict(X): one label per row, in row order.
Predict(mdl, X) == [i \in 1..NumRows(X) |-> PredictRow(mdl, Row(X, i))]

(***************************************************************************)
(* The script's literals, drawn from small sets                            *)
(***************************************************************************)
MaxSeries == 3                  \* rows of telemetry (the script: 500)

MaxPoints == 3                  \* sample times along the orbit (the script: 100)

ScriptPoints == 100

\* temperature[200:220] += 15 and voltage[350:360] -= 2; the second pair of
\* windows falls inside a series of MaxSeries rows.
Windows == {[temp |-> <<200, 220>>, volt |-> <<350, 360>>],
            [temp |-> <<1, 2>>, volt |-> <<0, 1>>]}

\* alt of sat1 and of sat2, in km: the script's 500 and 505, pairs of equal
\* and of growing separation on both sides of sat1, and orbits below the
\* surface.
AltPairs == {<<500, a>> : a \in {450, 495, 500, 505, 510, 550, 560}}
            \cup {<<0 - 100, 0 - 100>>, <<0 - 100, 0 - 95>>}

Configs ==
    {[n |-> n, win |-> w, alt1 |-> ap[1], alt2 |-> ap[2], num |-> k] :
        n \in 0..MaxSeries, w \in Windows, ap \in AltPairs, k \in 0..MaxPoints}
    \cup {[n |-> n, win |-> w, alt1 |-> 500, alt2 |-> 505, num |-> ScriptPoints] :
        n \in {MaxSeries}, w \in Windows}

Seeds == {1, 2}                 \* states of the process-wide numpy generator

(***************************************************************************)
(* State                                                                   *)
(***************************************************************************)
VARIABLES
    cfg,                \* the script's literals
    np_random,          \* numpy's process-wide generator (survives reruns)
    last_run,           \* what the previous run of the script rendered
    pcT, errT,          \* telemetry section: position, exception raised
    time, temperature, voltage, current, signal_strength,
    telemetry, features, model,
    pcO, errO,          \* orbit section: position, exception raised
    sat1, sat2, times, sat1_coords, sat2_coords,
    distances, min_distance, risk_status

telemetryVars == <<pcT, errT, time, temperature, voltage, current,
                   signal_strength, telemetry, features, model>>

orbitVars == <<pcO, errO, sat1, sat2, times, sat1_coords, sat2_coords,
               distances, min_distance, risk_status>>

vars == <<cfg, np_random, last_run, telemetryVars, orbitVars>>

NoRun == [rendered |-> FALSE, anomaly |-> <<>>, min_distance |-> 0 - 1,
          risk_status |-> ""]

TelemetryStart ==
    /\ pcT = "time" /\ errT = ""
    /\ time = <<>> /\ temperature = <<>> /\ voltage = <<>>
    /\ current = <<>> /\ signal_strength = <<>>
    /\ telemetry = NoFrame /\ features = NoFrame /\ model = NoModel

OrbitStart ==
    /\ pcO = "orbits" /\ errO = ""
    /\ sat1 = NoOrbit /\ sat2 = NoOrbit
    /\ times = <<>> /\ sat1_coords = <<>> /\ sat2_coords = <<>>
    /\ distances = <<>> /\ min_distance = 0 - 1 /\ risk_status = ""

Init ==
    /\ cfg \in Configs
    /\ np_random \in Seeds
    /\ last_run = NoRun
    /\ TelemetryStart
    /\ OrbitStart

(***************************************************************************)
(* Telemetry and anomaly detection, lines 13-35                            *)
(***************************************************************************)
\* line 13: time = np.arange(0, 500, 1)
GenTime ==
    /\ pcT = "time"
    /\ time' = Arange(cfg.n)
    /\ pcT' = "channels"
    /\ UNCHANGED <<errT, temperature, voltage, current, signal_strength,
                   telemetry, features, model>>
    /\ UNCHANGED <<cfg, np_random, last_run, orbitVars>>

\* lines 15-18: the four sinusoidal channels
GenChannels ==
    /\ pcT = "channels"
    /\ temperature' = Channel(25, 2 * ValueScale, 2, time)
    /\ voltage' = Channel(5, (2 * ValueScale) \div 10, 1, time)
    /\ current' = Channel(2, ValueScale \div 10, 3, time)
    /\ signal_strength' = Channel(90, 5 * ValueScale, 2, time)
    /\ pcT' = "inject"
    /\ UNCHANGED <<errT, time, telemetry, features, model>>
    /\ UNCHANGED <<cfg, np_random, last_run, orbitVars>>

\* lines 21-22: temperature[200:220] += 15; voltage[350:360] -= 2
InjectAnomalies ==
    /\ pcT = "inject"
    /\ temperature' = AddToSlice(temperature, cfg.win.temp[1], cfg.win.temp[2],
                                 15 * ValueScale)
    /\ voltage' = AddToSlice(voltage, cfg.win.volt[1], cfg.win.volt[2],
                             0 - 2 * ValueScale)
    /\ pcT' = "frame"
    /\ UNCHANGED <<errT, time, current, signal_strength, telemetry, features, model>>
    /\ UNCHANGED <<cfg, np_random, last_run, orbitVars>>

\* lines 24-30: telemetry = pd.DataFrame({...})
BuildTelemetry ==
    /\ pcT = "frame"
    /\ telemetry' = [time |-> time, temperature |-> temperature,
                     voltage |-> voltage, current |-> current,
                     signal_strength |-> signal_strength]
    /\ pcT' = "features"
    /\ UNCHANGED <<errT, time, temperature, voltage, current, signal_strength,
                   features, model>>
    /\ UNCHANGED <<cfg, np_random, last_run, orbitVars>>

\* lines 33-34: features = telemetry[[...]]; model = IsolationForest(...)
SelectFeatures ==
    /\ pcT = "features"
    /\ features' = SelectColumns(telemetry, FeatureColumns)
    /\ model' = IsolationForest(Contamination, RandomStateArg)
    /\ pcT' = "fit"
    /\ UNCHANGED <<errT, time, temperature, voltage, current, signal_strength,
                   telemetry>>
    /\ UNCHANGED <<cfg, np_random, last_run, orbitVars>>

\* line 35: telemetry["anomaly"] = model.fit_predict(features).  An empty
\* table is refused by sklearn's input check with a ValueError; a table of one
\* row or more is fitted and labelled.
FitPredict ==
    /\ pcT = "fit"
    /\ IF NumRows(features) = 0
       THEN /\ errT' = "ValueError"
            /\ pcT' = "failed"
            /\ UNCHANGED <<telemetry, model, np_random>>
       ELSE \E fitted \in {Fit(model, features, np_random)} :
               /\ model' = fitted.model
               /\ np_random' = fitted.np_random
               /\ telemetry' = SetColumn(telemetry, "anomaly",
                                         Predict(fitted.model, features))
               /\ errT' = errT
               /\ pcT' = "done"
    /\ UNCHANGED <<time, temperature, voltage, current, signal_strength, features>>
    /\ UNCHANGED <<cfg, last_run, orbitVars>>
(***************************************************************************)
(* Orbits and space traffic, lines 38-57                                   *)
(***************************************************************************)
WarningBelow == 50000           \* min_distance < 50 (km), in metres

CriticalBelow == 10000          \* min_distance < 10 (km), in metres

\* if min_distance < 50
IsWarning(d) == d < WarningBelow

IsCritical_Le(d) == d <= CriticalBelow

\* if min_distance < 10
IsCritical(d) == d < CriticalBelow

\* lines 38-40: epoch, sat1 and sat2
MakeOrbits ==
    /\ pcO = "orbits"
    /\ sat1' = Circular(cfg.alt1, Epoch)
    /\ sat2' = Circular(cfg.alt2, Epoch)
    /\ pcO' = "times"
    /\ UNCHANGED <<errO, times, sat1_coords, sat2_coords, distances,
                   min_distance, risk_status>>
    /\ UNCHANGED <<cfg, np_random, last_run, telemetryVars>>

SampleTimes_IntoTime ==
    /\ pcO = "times"
    /\ time' = Linspace(0, Period(sat1), cfg.num)
    /\ pcO' = "coords1"
    /\ UNCHANGED <<errO, sat1, sat2, times, sat1_coords, sat2_coords, distances,
                   min_distance, risk_status>>
    /\ UNCHANGED <<cfg, np_random, last_run, pcT, errT, temperature, voltage,
                   current, signal_strength, telemetry, features, model>>

\* line 43: times = TimeDelta(np.linspace(0, sat1.period, 100) * u.s)
SampleTimes ==
    /\ pcO = "times"
    /\ times' = Linspace(0, Period(sat1), cfg.num)
    /\ pcO' = "coords1"
    /\ UNCHANGED <<errO, sat1, sat2, sat1_coords, sat2_coords, distances,
                   min_distance, risk_status>>
    /\ UNCHANGED <<cfg, np_random, last_run, telemetryVars>>

\* line 46: sat1_coords
PropagateSat1 ==
    /\ pcO = "coords1"
    /\ sat1_coords' = Trajectory(sat1, times)
    /\ pcO' = "coords2"
    /\ UNCHANGED <<errO, sat1, sat2, times, sat2_coords, distances,
                   min_distance, risk_status>>
    /\ UNCHANGED <<cfg, np_random, last_run, telemetryVars>>

PropagateSat2_OwnPeriod ==
    /\ pcO = "coords2"
    /\ sat2_coords' = Trajectory(sat2, Linspace(0, Period(sat2), cfg.num))
    /\ pcO' = "distances"
    /\ UNCHANGED <<errO, sat1, sat2, times, sat1_coords, distances,
                   min_distance, risk_status>>
    /\ UNCHANGED <<cfg, np_random, last_run, telemetryVars>>

\* line 47: sat2_coords
PropagateSat2 ==
    /\ pcO = "coords2"
    /\ sat2_coords' = Trajectory(sat2, times)
    /\ pcO' = "distances"
    /\ UNCHANGED <<errO, sat1, sat2, times, sat1_coords, distances,
                   min_distance, risk_status>>
    /\ UNCHANGED <<cfg, np_random, last_run, telemetryVars>>

\* line 50: distances = np.linalg.norm(sat1_coords - sat2_coords, axis=1).
\* With no sample time the coordinate arrays are empty and one-dimensional,
\* and axis=1 raises numpy's AxisError.
ComputeDistances ==
    /\ pcO = "distances"
    /\ IF Len(sat1_coords) = 0
       THEN /\ errO' = "AxisError"
            /\ pcO' = "failed"
            /\ UNCHANGED distances
       ELSE /\ distances' = [i \in 1..Len(sat1_coords) |->
                                Norm(Subtract(sat1_coords[i], sat2_coords[i]))]
            /\ pcO' = "min"
            /\ UNCHANGED errO
    /\ UNCHANGED <<sat1, sat2, times, sat1_coords, sat2_coords, min_distance,
                   risk_status>>
    /\ UNCHANGED <<cfg, np_random, last_run, telemetryVars>>

\* line 51: min_distance = np.min(distances)
ComputeMinDistance ==
    /\ pcO = "min"
    /\ min_distance' = MinOf(distances)
    /\ pcO' = "risk"
    /\ UNCHANGED <<errO, sat1, sat2, times, sat1_coords, sat2_coords, distances,
                   risk_status>>
    /\ UNCHANGED <<cfg, np_random, last_run, telemetryVars>>

\* line 53: risk_status = "SAFE"
SetRiskSafe ==
    /\ pcO = "risk"
    /\ risk_status' = "SAFE"
    /\ pcO' = "warning"
    /\ UNCHANGED <<errO, sat1, sat2, times, sat1_coords, sat2_coords, distances,
                   min_distance>>
    /\ UNCHANGED <<cfg, np_random, last_run, telemetryVars>>

\* lines 54-55: if min_distance < 50: risk_status = "WARNING"
CheckWarning ==
    /\ pcO = "warning"
    /\ risk_status' = IF IsWarning(min_distance) THEN "WARNING" ELSE risk_status
    /\ pcO' = "critical"
    /\ UNCHANGED <<errO, sat1, sat2, times, sat1_coords, sat2_coords, distances,
                   min_distance>>
    /\ UNCHANGED <<cfg, np_random, last_run, telemetryVars>>

\* lines 56-57: if min_distance < 10: risk_status = "CRITICAL"
CheckCritical ==
    /\ pcO = "critical"
    /\ risk_status' = IF IsCritical(min_distance) THEN "CRITICAL" ELSE risk_status
    /\ pcO' = "done"
    /\ UNCHANGED <<errO, sat1, sat2, times, sat1_coords, sat2_coords, distances,
                   min_distance>>
    /\ UNCHANGED <<cfg, np_random, last_run, telemetryVars>>

(***************************************************************************)
(* The Streamlit page, lines 60-120, and the rerun of the script           *)
(***************************************************************************)
\* lines 60-120: the charts, the table of anomalous rows, the minimum distance
\* and the risk status are written to the page.
Render ==
    /\ pcT = "done" /\ pcO = "done"
    /\ last_run' = [rendered |-> TRUE, anomaly |-> telemetry.anomaly,
                    min_distance |-> min_distance, risk_status |-> risk_status]
    /\ pcT' = "rendered" /\ pcO' = "rendered"
    /\ UNCHANGED <<errT, time, temperature, voltage, current, signal_strength,
                   telemetry, features, model>>
    /\ UNCHANGED <<errO, sat1, sat2, times, sat1_coords, sat2_coords, distances,
                   min_distance, risk_status>>
    /\ UNCHANGED <<cfg, np_random>>

\* Streamlit runs the script again from the top, in the same process, once a
\* run has ended (rendered, or stopped by an exception): every name of the
\* script is bound anew, the process-wide generator is not.
Rerun ==
    /\ pcT \in {"rendered", "failed"} \/ pcO = "failed"
    /\ pcT' = "time" /\ errT' = ""
    /\ time' = <<>> /\ temperature' = <<>> /\ voltage' = <<>>
    /\ current' = <<>> /\ signal_strength' = <<>>
    /\ telemetry' = NoFrame /\ features' = NoFrame /\ model' = NoModel
    /\ pcO' = "orbits" /\ errO' = ""
    /\ sat1' = NoOrbit /\ sat2' = NoOrbit
    /\ times' = <<>> /\ sat1_coords' = <<>> /\ sat2_coords' = <<>>
    /\ distances' = <<>> /\ min_distance' = 0 - 1 /\ risk_status' = ""
    /\ UNCHANGED <<cfg, np_random, last_run>>

TelemetryStep ==
    \/ GenTime
    \/ GenChannels
    \/ InjectAnomalies
    \/ BuildTelemetry
    \/ SelectFeatures
    \/ FitPredict

OrbitStep ==
    \/ MakeOrbits
    \/ SampleTimes
    \/ PropagateSat1
    \/ PropagateSat2
    \/ ComputeDistances
    \/ ComputeMinDistance
    \/ SetRiskSafe
    \/ CheckWarning
    \/ CheckCritical

\* The script as written: the orbit section starts when the telemetry section
\* has ended without an exception.
Next ==
    \/ TelemetryStep
    \/ (pcT = "done" /\ OrbitStep)
    \/ Render
    \/ Rerun

Spec == Init /\ [][Next]_vars

\* The two sections run as two independent tasks, in any interleaving.
NextPar ==
    \/ TelemetryStep
    \/ OrbitStep
    \/ Render
    \/ Rerun

SpecPar == Init /\ [][NextPar]_vars

(***************************************************************************)
(* Properties                                                              *)
(***************************************************************************)
Km == 10^3

OrbitEnded == pcO \in {"done", "rendered"}

TelemetryEnded == pcT \in {"done", "rendered"}

\* Lines 38-51 for other literals: the minimum distance of the orbits at
\* altitudes altA and altB over num sample times of the first one's period.
MinDistanceFor(altA, altB, num) ==
    With(<<Circular(altA, Epoch), Circular(altB, Epoch)>>, LAMBDA sats :
    With(Linspace(0, Period(sats[1]), num), LAMBDA ts :
    With(<<Trajectory(sats[1], ts), Trajectory(sats[2], ts)>>, LAMBDA xy :
        MinOf([i \in 1..num |-> Norm(Subtract(xy[1][i], xy[2][i]))]))))

\* C1: the risk status is CRITICAL below 10 km, WARNING from 10 km up to but
\* not including 50 km and SAFE from 50 km on; after the first check alone it
\* is WARNING exactly below 50 km, and the second check replaces that WARNING
\* below 10 km.
C1_RiskTiers ==
    /\ pcO = "critical" =>
        risk_status = (IF min_distance < 50 * Km THEN "WARNING" ELSE "SAFE")
    /\ OrbitEnded =>
        /\ min_distance < 10 * Km => risk_status = "CRITICAL"
        /\ (10 * Km <= min_distance /\ min_distance < 50 * Km) => risk_status = "WARNING"
        /\ min_distance >= 50 * Km => risk_status = "SAFE"

C1_Witness ==
    /\ pcO = "done"
    /\ min_distance = 10 * Km
    /\ risk_status = "WARNING"

\* C2: two equal orbits and at least two sample times give a distance of 0 at
\* every sample time, a minimum distance of 0 and the status CRITICAL.
C2_CoincidentOrbits ==
    (cfg.alt1 = cfg.alt2 /\ cfg.num >= 2) =>
        /\ pcO \in {"min", "risk", "warning", "critical", "done", "rendered"} =>
            /\ Len(distances) = cfg.num
            /\ \A i \in 1..Len(distances) : distances[i] = 0
        /\ pcO \in {"risk", "warning", "critical", "done", "rendered"} =>
            min_distance = 0
        /\ OrbitEnded => risk_status = "CRITICAL"

C2_Witness ==
    /\ pcO = "done"
    /\ cfg.alt1 = cfg.alt2 /\ cfg.num >= 2
    /\ Len(distances) = cfg.num
    /\ min_distance = 0

ScriptOrbits == cfg.alt1 = 500 /\ cfg.alt2 = 505 /\ cfg.num = ScriptPoints

\* C3: for the script's orbits (altitudes 500 km and 505 km, 100 sample times
\* over the period of the first) the minimum distance is the difference of the
\* radii, 5 km to within 5 m, and the status is CRITICAL.
C3_ScriptScenario ==
    (ScriptOrbits /\ OrbitEnded) =>
        /\ Abs(min_distance - 5 * Km) <= 5
        /\ Abs(min_distance - Abs(sat2.a - sat1.a)) <= 5
        /\ risk_status = "CRITICAL"

C3_Witness ==
    /\ ScriptOrbits /\ pcO = "done"
    /\ Len(distances) = ScriptPoints
    /\ \E i \in 1..Len(distances) : distances[i] > 40 * Km

\* C4: both trajectories are taken at one sequence of cfg.num sample times,
\* evenly spaced from 0 to the period of sat1: they have cfg.num positions
\* each, and position i of either is that orbit propagated to sample time i.
C4_SharedSampleTimes ==
    pcO \in {"distances", "min", "risk", "warning", "critical", "done", "rendered"} =>
        /\ Len(times) = cfg.num
        /\ Len(sat1_coords) = cfg.num
        /\ Len(sat2_coords) = cfg.num
        /\ cfg.num >= 1 => times[1] = 0
        /\ cfg.num >= 2 => times[cfg.num] = Period(sat1)
        /\ \A i \in 1..(cfg.num - 1) :
              Abs((times[i + 1] - times[i]) * (cfg.num - 1) - Period(sat1)) <= cfg.num - 1
        /\ \A i \in 1..cfg.num :
              /\ sat1_coords[i] = Propagate(sat1, times[i])
              /\ sat2_coords[i] = Propagate(sat2, times[i])

C4_Witness ==
    /\ pcO = "done"
    /\ cfg.num >= 3
    /\ Period(sat2) # Period(sat1)
    /\ times[cfg.num] = Period(sat1)

InvalidOrbitInput ==
    \/ cfg.num < 2
    \/ EarthR + Km * cfg.alt1 < EarthR
    \/ EarthR + Km * cfg.alt2 < EarthR

\* C5: with a sample count below 2 or an orbit radius below the surface the
\* evaluation ends with InvalidOrbitError and leaves no trajectory, distance
\* or risk status.
C5_InvalidOrbitRejected ==
    InvalidOrbitInput =>
        /\ pcO \in {"done", "rendered", "failed"} => errO = "InvalidOrbitError"
        /\ sat1_coords = <<>> /\ sat2_coords = <<>>
        /\ min_distance = 0 - 1 /\ risk_status = ""

\* C6: a fitted table of two rows or more gets one label per row, each 1 or
\* -1, label i being the prediction for row i.
C6_OneLabelPerRow ==
    (TelemetryEnded /\ NumRows(features) >= 2) =>
        /\ "anomaly" \in DOMAIN telemetry
        /\ Len(telemetry.anomaly) = NumRows(features)
        /\ Len(telemetry.anomaly) = Len(telemetry.time)
        /\ \A i \in 1..NumRows(features) :
              /\ telemetry.anomaly[i] \in {1, 0 - 1}
              /\ telemetry.anomaly[i] = PredictRow(model, Row(features, i))

C6_Witness ==
    /\ pcT = "done"
    /\ NumRows(features) >= 3
    /\ telemetry.anomaly[1] = 0 - 1
    /\ telemetry.anomaly[2] = 1

\* C7: every run of the script over the same table, with the same
\* contamination and random_state, gives the labels the run before it gave,
\* and the labels a fit gives from any other state of numpy's global generator.
C7_SameLabelsEveryRun ==
    /\ (TelemetryEnded /\ last_run.rendered) => telemetry.anomaly = last_run.anomaly
    /\ (pcT = "done" /\ ~last_run.rendered /\ NumRows(features) >= 1) =>
          \A g \in Seeds \ {np_random} :
              \E fitted \in {Fit(IsolationForest(Contamination, RandomStateArg), features, g)} :
                  /\ Predict(fitted.model, features) = telemetry.anomaly
                  /\ fitted.np_random = g

C7_Witness ==
    /\ pcT = "done"
    /\ last_run.rendered
    /\ NumRows(features) >= 2
    /\ \E i \in 1..NumRows(features) : telemetry.anomaly[i] = 0 - 1

\* C8: a table of fewer than two rows ends the detection with
\* InvalidInputError and no labels.
C8_ShortSeriesRejected ==
    cfg.n < 2 =>
        /\ pcT \in {"done", "rendered", "failed"} => errT = "InvalidInputError"
        /\ "anomaly" \notin DOMAIN telemetry

\* C9: with sat1 and the number of sample times fixed, a sat2 further away in
\* radius never has a smaller minimum distance.
C9_Monotone ==
    pcO = "done" =>
        \A p \in AltPairs :
            (p[1] = cfg.alt1 /\ Abs(p[2] - p[1]) > Abs(cfg.alt2 - cfg.alt1))
                => MinDistanceFor(p[1], p[2], cfg.num) >= min_distance

C9_Witness ==
    /\ pcO = "done"
    /\ cfg.num >= 2
    /\ cfg.alt2 < cfg.alt1
    /\ \E p \in AltPairs :
          /\ p[1] = cfg.alt1 /\ Abs(p[2] - p[1]) > Abs(cfg.alt2 - cfg.alt1)
          /\ MinDistanceFor(p[1], p[2], cfg.num) > min_distance

TelemetryMoved == pcT' # pcT /\ pcT' \notin {"rendered", "time"}

OrbitMoved == pcO' # pcO /\ pcO' \notin {"rendered", "orbits"}

\* C10: run in any interleaving, a step of the detection leaves every variable
\* of the orbit section unchanged and a step of the orbit section every
\* variable of the detection; the literals and, once made, the feature table
\* and the two orbits are never changed; and every run renders the labels, the
\* minimum distance and the risk status the run before it rendered.
C10_Independent ==
    /\ [][/\ TelemetryMoved => UNCHANGED orbitVars
          /\ OrbitMoved => UNCHANGED telemetryVars
          /\ cfg' = cfg
          /\ (pcT \in {"fit", "done"} /\ pcT' # "time") => features' = features
          /\ (pcO \notin {"orbits", "rendered", "failed"} /\ pcO' # "orbits")
                => (sat1' = sat1 /\ sat2' = sat2)]_vars
    /\ []((TelemetryEnded /\ last_run.rendered) => telemetry.anomaly = last_run.anomaly)
    /\ []((OrbitEnded /\ last_run.rendered) =>
            /\ min_distance = last_run.min_distance
            /\ risk_status = last_run.risk_status)

C10_Witness ==
    /\ last_run.rendered
    /\ pcO = "done"
    /\ pcT = "channels"
    /\ min_distance = last_run.min_distance

====
